---- MODULE Spec2Model ----
(***************************************************************************)
(* The asynchronous job pipeline of mcp_platform: the Redis-backed FIFO    *)
(* queue (jobs/queue.py), the worker loop and process_job (jobs/worker.py) *)
(* and the module state and tool handler of server.py.                     *)
(*                                                                         *)
(* Python values are sequences of strings whose first element is the type  *)
(* tag: <<"str", s>>, <<"list", ...>>, <<"tuple", ...>>.  JSON values are  *)
(* <<"string", s>> and <<"array", ...>>.  A dict (and a JSON object) is a  *)
(* function from its keys.  A record of the Redis list is the JSON text    *)
(* that json.dumps wrote, held as what the text denotes.                   *)
(***************************************************************************)
EXTENDS Naturals, Sequences, FiniteSets, TLC

VARIABLES
    queue,            \* the Redis list "jobs": a sequence of records
    notes,            \* server.notes: dict name -> content
    mirror,           \* the Redis hash "notes"
    job_queue,        \* server.job_queue: "None" or "queue"
    redis_conn,       \* module attribute server.redis_conn: "unset", "None" or "conn"
    request_context,  \* module attribute server.request_context: "unset" or "ctx"
    reachable,        \* whether the Redis store answers
    pc,               \* where the worker task is
    cur,              \* the live worker's local "job": what its last dequeue returned
    err,              \* the exception that ended the worker task ("" if none);
                      \* a ConnectionError names the call that raised it
    touched,          \* a tool call wrote cur's note while process_job was suspended
    put,              \* observer: the jobs passed to enqueue, in order
    got,              \* observer: the jobs returned by dequeue, in order
    ret,              \* observer: the outcome of the last queue call
    last_call,        \* observer: the last tool call (or recovery) and its outcome
    consumers         \* the concurrent consumers of the queue: each one's position
                      \* in dequeue, the reply it awaits and the jobs it was returned

vars == <<queue, notes, mirror, job_queue, redis_conn, request_context, reachable,
          pc, cur, err, touched, put, got, ret, last_call, consumers>>

pipeline == <<notes, mirror, job_queue, redis_conn, request_context, reachable,
              pc, cur, err, touched>>

observer == <<put, got, ret, last_call, consumers>>

---------------------------------------------------------------------------
(* Bounds *)

MaxQueue == 2

MaxPut == 3

---------------------------------------------------------------------------
(* Python values, dicts and jobs *)

PyStr(s) == <<"str", s>>

PyList(s, t) == <<"list", s, t>>

PyTuple(s, t) == <<"tuple", s, t>>

EmptyDict == [k \in {} |-> <<"none">>]

\* An assignment that keeps the value of a key already there (setdefault).
C17_PutIfAbsent(d, k, v) ==
    [x \in (DOMAIN d) \cup {k} |-> IF x \in DOMAIN d THEN d[x] ELSE v]

Put(d, k, v) == [x \in (DOMAIN d) \cup {k} |-> IF x = k THEN v ELSE d[x]]

Del(d, k) == [x \in (DOMAIN d) \ {k} |-> d[x]]

Job(type, data) == [type |-> type, data |-> data]

\* Stands for "no job": the None that dequeue returns, an idle worker.
NoJob == Job("", EmptyDict)

\* An add-note job made without its content.
C23_NoteWithoutContent(n, c) == Job("add-note", [name |-> PyStr(n)])

AddNote(n, c) == Job("add-note", [name |-> PyStr(n), content |-> PyStr(c)])

\* The notes the model's jobs write: two names.
JobSpace == {<<"a", "x">>, <<"b", "x">>}

\* The notes its tool calls write: those, and another content for one name.
NoteSpace == JobSpace \cup {<<"a", "y">>}

ValidJobs == {AddNote(nc[1], nc[2]) : nc \in JobSpace}

MissingContent == Job("add-note", [name |-> PyStr("a")])

UnknownType == Job("noop", EmptyDict)

Echo == Job("echo", [message |-> PyStr("hi")])

EchoList == Job("echo", [message |-> PyList("h", "i")])

EchoTuple == Job("echo", [message |-> PyTuple("h", "i")])

\* The jobs the pipeline is driven with.
PipelineJobs == ValidJobs \cup {MissingContent, UnknownType}

\* The jobs the queue alone is driven with.
Jobs == {AddNote("a", "x"), AddNote("b", "x"), MissingContent, UnknownType,
         Echo, EchoList, EchoTuple}

---------------------------------------------------------------------------
(* Serialization: json.dumps of asdict of the job, and Job built from json.loads *)

ToJson(v) ==
    CASE v[1] = "str" -> <<"string">> \o Tail(v)
      [] v[1] \in {"list", "tuple"} -> <<"array">> \o Tail(v)

FromJson(t) ==
    CASE t[1] = "string" -> <<"str">> \o Tail(t)
      [] t[1] = "array" -> <<"list">> \o Tail(t)

\* A serializer that writes the type and forgets the data.
C2_DumpsTypeOnly(job) ==
    [syntax |-> "object", keys |-> {"type", "data"}, type |-> job.type,
     data |-> EmptyDict]

Dumps(job) ==
    [syntax |-> "object", keys |-> {"type", "data"}, type |-> job.type,
     data |-> [k \in DOMAIN job.data |-> ToJson(job.data[k])]]

\* Records another client of the store may leave in the list.
NotJson == [syntax |-> "invalid", keys |-> {}, type |-> "", data |-> EmptyDict]

NoDataObject ==
    [syntax |-> "object", keys |-> {"type"}, type |-> "add-note", data |-> EmptyDict]

ForeignRecords == {NotJson, NoDataObject}

Loads(rec) ==
    IF rec.syntax # "object"
    THEN [exc |-> "JSONDecodeError", job |-> NoJob]
    ELSE IF rec.keys # {"type", "data"}
    THEN [exc |-> "TypeError", job |-> NoJob]
    ELSE [exc |-> "",
          job |-> Job(rec.type, [k \in DOMAIN rec.data |-> FromJson(rec.data[k])])]

---------------------------------------------------------------------------
(* The Redis list *)

\* A push at the head of the list (lpush for rpush).
C21_PushFront(list, rec) == <<rec>> \o list

RPush(list, rec) == Append(list, rec)

\* A pop that returns the tail element (rpop for lpop).
C1_PopsTail(list) == list[Len(list)]

LPopValue(list) == Head(list)

\* A read of the head that leaves it in the list (lindex for lpop).
C12_LeavesHead(list) == list

LPopRest(list) == Tail(list)

---------------------------------------------------------------------------
(* RedisJobQueue *)

Ret(op, job, len, exc) == [op |-> op, job |-> job, len |-> len, exc |-> exc]

NoRet == Ret("", NoJob, 0, "")

\* An enqueue that pushes the record twice.
C14_EnqueueTwice(job) == RPush(RPush(queue, Dumps(job)), Dumps(job))

\* enqueue(job): rpush of the serialized job; returns the new length.
EnqueueList(job) == RPush(queue, Dumps(job))

\* A dequeue that raises on an empty list.
C13_EmptyRaises ==
    IF queue = <<>>
    THEN [exc |-> "IndexError", job |-> NoJob, none |-> FALSE]
    ELSE LET d == Loads(LPopValue(queue))
         IN  [exc |-> d.exc, job |-> d.job, none |-> FALSE]

\* dequeue(): lpop, None on an empty list, else the decoded job (or the
\* exception the decoding raised; the record is popped all the same).
DequeueResult ==
    IF queue = <<>>
    THEN [exc |-> "", job |-> NoJob, none |-> TRUE]
    ELSE LET d == Loads(LPopValue(queue))
         IN  [exc |-> d.exc, job |-> d.job, none |-> FALSE]

\* A dequeue that leaves the record it returns in the list.
C20_KeepsHead == queue

DequeueList == IF queue = <<>> THEN queue ELSE LPopRest(queue)

---------------------------------------------------------------------------
(* process_job, up to its first suspension, its return or its raise.  The  *)
(* outcome names where the worker goes: "poll" (returned), "hset" and      *)
(* "notify" (suspended there), "crashed" (raised).                         *)

Outcome(n, p, e) == [notes |-> n, pc |-> p, err |-> e]

NameOf(job) == job.data["name"][2]

ContentOf(job) == job.data["content"][2]

\* line 22: the notifier is called if the module has a truthy request_context
AfterMirror == IF request_context = "ctx" THEN "notify" ELSE "poll"

\* A process_job without the check of the job's type.
C5_ProcessAnyType(job) ==
    IF "name" \notin DOMAIN job.data \/ "content" \notin DOMAIN job.data
    THEN Outcome(notes, "crashed", "KeyError")
    ELSE LET new == Put(notes, NameOf(job), ContentOf(job))
         IN  IF redis_conn = "unset"
             THEN Outcome(new, "crashed", "AttributeError")
             ELSE IF redis_conn # "None"
             THEN Outcome(new, "hset", "")
             ELSE Outcome(new, AfterMirror, "")

process_job(job) ==
    IF job.type # "add-note"
    THEN Outcome(notes, "poll", "")
    ELSE IF "name" \notin DOMAIN job.data \/ "content" \notin DOMAIN job.data
    THEN Outcome(notes, "crashed", "KeyError")
    ELSE LET new == Put(notes, NameOf(job), ContentOf(job))
         IN  IF redis_conn = "unset"
             THEN Outcome(new, "crashed", "AttributeError")
             ELSE IF redis_conn # "None"
             THEN Outcome(new, "hset", "")
             ELSE Outcome(new, AfterMirror, "")

---------------------------------------------------------------------------
(* handle_call_tool.  arguments.get of a missing key gives None, which     *)
(* "not" treats as the empty string: both are "" here.  A raise is exc.    *)

Get(arguments, k) == IF k \in DOMAIN arguments THEN arguments[k] ELSE ""

Called(exc, n, q, sent) == [exc |-> exc, notes |-> n, queue |-> q, sent |-> sent]

\* A handler that raises after it has sent the notification.
C15_RejectedNotifies(exc) == Called(exc, notes, queue, 1)

Rejected(exc) == Called(exc, notes, queue, 0)

CallTool(name, arguments, session) ==
    LET note_name == Get(arguments, "name")
        content == Get(arguments, "content")
        sent == IF session THEN 1 ELSE 0
    IN  IF DOMAIN arguments = {}
        THEN Rejected("ValueError")
        ELSE IF name = "add-note"
        THEN IF note_name = "" \/ content = ""
             THEN Rejected("ValueError")
             ELSE Called("", Put(notes, note_name, content), queue, sent)
        ELSE IF name = "add-note-async"
        THEN IF job_queue = "None"
             THEN Rejected("ValueError")
             ELSE IF note_name = "" \/ content = ""
             THEN Rejected("ValueError")
             ELSE IF ~reachable
             THEN Rejected("ConnectionError")
             ELSE Called("", notes, EnqueueList(AddNote(note_name, content)), 0)
        ELSE IF name = "delete-note"
        THEN IF note_name = ""
             THEN Rejected("ValueError")
             ELSE IF note_name \in DOMAIN notes
             THEN Called("", Del(notes, note_name), queue, sent)
             ELSE Rejected("ValueError")
        ELSE Rejected("ValueError")

\* The calls the model makes: each tool with a name and a content, and one
\* call for each way of being rejected.
NoteArgs == {[name |-> nc[1], content |-> nc[2]] : nc \in NoteSpace}

JobArgs == {[name |-> nc[1], content |-> nc[2]] : nc \in JobSpace}

Calls ==
    ({"add-note"} \X NoteArgs)
    \cup ({"add-note-async"} \X JobArgs)
    \cup ({"delete-note"} \X {[name |-> "a"], [name |-> "b"]})
    \cup {<<"add-note", EmptyDict>>,
          <<"add-note", [name |-> "", content |-> "x"]>>,
          <<"add-note-async", [name |-> "a"]>>,
          <<"delete-note", [content |-> "x"]>>,
          <<"unknown", [name |-> "a"]>>}

---------------------------------------------------------------------------
(* What the observer of the tool handler records: the tool, its arguments, *)
(* the exception raised ("" if none), the notifications sent, and the      *)
(* parity of the number of calls made, which changes with every call.      *)

ToolCall(op, arguments, exc, sent, seq) ==
    [op |-> op, arguments |-> arguments, exc |-> exc, sent |-> sent, seq |-> seq]

NoCall == ToolCall("", EmptyDict, "", 0, 0)

\* A recovery that does not clear notes.
C16_NoClear(d) == d

\* notes.clear() and notes.update(loaded)
Clear(d) == EmptyDict

Update(d, loaded) ==
    [x \in (DOMAIN d) \cup (DOMAIN loaded) |->
        IF x \in DOMAIN loaded THEN loaded[x] ELSE d[x]]

\* hgetall("notes") on a connection that decodes responses: names and
\* contents come back as the str they were written from.
HGetAll(hash) == [x \in DOMAIN hash |-> hash[x]]

---------------------------------------------------------------------------
(* Concurrent consumers of one queue.  A consumer's dequeue suspends in    *)
(* `await lpop`: the store runs the command, and the consumer resumes with *)
(* the reply.  reply is <<>> for None, else the record in a sequence.      *)

Consumers == {1, 2}

Idle(out) == [pc |-> "idle", reply |-> <<>>, out |-> out]

Awaiting(reply, out) == [pc |-> "lpop", reply |-> reply, out |-> out]

---------------------------------------------------------------------------
(* Actions *)

Init ==
    /\ queue = <<>>
    /\ notes = EmptyDict
    /\ mirror = EmptyDict
    /\ job_queue = "None"
    /\ redis_conn = "unset"
    /\ request_context = "unset"
    /\ reachable = TRUE
    /\ pc = "init"
    /\ cur = NoJob
    /\ err = ""
    /\ touched = FALSE
    /\ put = <<>>
    /\ got = <<>>
    /\ ret = NoRet
    /\ last_call = NoCall
    /\ consumers = [c \in Consumers |-> Idle(<<>>)]

\* main(): the queue is created and the worker task started.
Main ==
    /\ pc = "init"
    /\ job_queue' = "queue"
    /\ pc' = "poll"
    /\ UNCHANGED <<queue, notes, mirror, redis_conn, request_context, reachable,
                   cur, err, touched>>
    /\ UNCHANGED observer

Running == pc \in {"poll", "sleep", "hset", "notify"}

\* The embedding program (the integration test) sets server.redis_conn
\* before it starts the worker.  (It sets it again once the worker has
\* stopped, when nothing reads it any more.)
SetRedisConn(v) ==
    /\ pc = "init"
    /\ redis_conn' = v
    /\ UNCHANGED <<queue, notes, mirror, job_queue, request_context, reachable,
                   pc, cur, err, touched>>
    /\ UNCHANGED observer

\* The embedding program gives the module a request_context before it
\* starts the worker; server.py itself defines none.
SetRequestContext(v) ==
    /\ pc = "init"
    /\ request_context' = v
    /\ UNCHANGED <<queue, notes, mirror, job_queue, redis_conn, reachable,
                   pc, cur, err, touched>>
    /\ UNCHANGED observer

\* The store becomes unreachable, or reachable again.
StoreFlips ==
    /\ reachable' = ~reachable
    /\ UNCHANGED <<queue, notes, mirror, job_queue, redis_conn, request_context,
                   pc, cur, err, touched>>
    /\ UNCHANGED observer

\* A producer calls enqueue(job) on the queue directly.
Produce(job) ==
    /\ reachable
    /\ Len(queue) < MaxQueue
    /\ queue' = EnqueueList(job)
    /\ UNCHANGED pipeline
    /\ UNCHANGED observer

\* Another client of the store pushes a record that is no serialized Job.
ForeignPush(rec) ==
    /\ reachable
    /\ Len(queue) < MaxQueue
    /\ queue' = RPush(queue, rec)
    /\ UNCHANGED pipeline
    /\ UNCHANGED observer

handle_call_tool(name, arguments, session) ==
    LET r == CallTool(name, arguments, session)
    IN  /\ Len(r.queue) <= MaxQueue
        /\ notes' = r.notes
        /\ queue' = r.queue
        /\ touched' = (touched \/ (/\ pc \in {"hset", "notify"}
                                   /\ r.notes # notes
                                   /\ Get(arguments, "name") = NameOf(cur)))
        /\ UNCHANGED <<mirror, job_queue, redis_conn, request_context, reachable,
                       pc, cur, err>>
        /\ UNCHANGED observer

\* worker: the dequeue raises because the store is unreachable.
WorkerDequeueFails ==
    /\ pc = "poll"
    /\ ~reachable
    /\ pc' = "crashed"
    /\ err' = "ConnectionError in lpop"
    /\ cur' = NoJob
    /\ UNCHANGED <<queue, notes, mirror, job_queue, redis_conn, request_context,
                   reachable, touched>>
    /\ UNCHANGED observer

\* worker: the dequeue returns None and the worker sleeps.
WorkerDequeueEmpty ==
    /\ pc = "poll"
    /\ reachable
    /\ DequeueResult.none
    /\ pc' = "sleep"
    /\ cur' = NoJob
    /\ UNCHANGED <<queue, notes, mirror, job_queue, redis_conn, request_context,
                   reachable, err, touched>>
    /\ UNCHANGED observer

\* worker: the dequeue pops a record that does not decode, and raises.
WorkerDequeueRaises ==
    /\ pc = "poll"
    /\ reachable
    /\ ~DequeueResult.none
    /\ DequeueResult.exc # ""
    /\ queue' = DequeueList
    /\ pc' = "crashed"
    /\ err' = DequeueResult.exc
    /\ cur' = NoJob
    /\ UNCHANGED <<notes, mirror, job_queue, redis_conn, request_context,
                   reachable, touched>>
    /\ UNCHANGED observer

\* worker: the dequeue returns a job and process_job runs to its first
\* suspension, its return or its raise.
WorkerDequeueJob ==
    /\ pc = "poll"
    /\ reachable
    /\ ~DequeueResult.none
    /\ DequeueResult.exc = ""
    /\ LET job == DequeueResult.job
           o == process_job(job)
       IN  /\ queue' = DequeueList
           /\ cur' = IF o.pc = "crashed" THEN NoJob ELSE job
           /\ notes' = o.notes
           /\ pc' = o.pc
           /\ err' = o.err
    /\ touched' = FALSE
    /\ UNCHANGED <<mirror, job_queue, redis_conn, request_context, reachable>>
    /\ UNCHANGED observer

\* process_job resumes from hset: the mirror is written, then line 22.
WorkerHset ==
    /\ pc = "hset"
    /\ reachable
    /\ mirror' = Put(mirror, NameOf(cur), ContentOf(cur))
    /\ pc' = AfterMirror
    /\ touched' = (touched /\ AfterMirror = "notify")
    /\ UNCHANGED <<queue, notes, job_queue, redis_conn, request_context, reachable,
                   cur, err>>
    /\ UNCHANGED observer

\* A failed mirror write that undoes the note.
C10_HsetFailsRollsBack ==
    /\ pc = "hset"
    /\ ~reachable
    /\ pc' = "crashed"
    /\ err' = "ConnectionError in hset"
    /\ cur' = NoJob
    /\ touched' = FALSE
    /\ notes' = Del(notes, NameOf(cur))
    /\ UNCHANGED <<queue, mirror, job_queue, redis_conn, request_context, reachable>>
    /\ UNCHANGED observer

\* process_job resumes from hset with the store's error.
WorkerHsetFails ==
    /\ pc = "hset"
    /\ ~reachable
    /\ pc' = "crashed"
    /\ err' = "ConnectionError in hset"
    /\ cur' = NoJob
    /\ touched' = FALSE
    /\ UNCHANGED <<queue, notes, mirror, job_queue, redis_conn, request_context,
                   reachable>>
    /\ UNCHANGED observer

\* process_job resumes from send_resource_list_changed and returns.
WorkerNotify ==
    /\ pc = "notify"
    /\ pc' = "poll"
    /\ touched' = FALSE
    /\ UNCHANGED <<queue, notes, mirror, job_queue, redis_conn, request_context,
                   reachable, cur, err>>
    /\ UNCHANGED observer

\* worker: the sleep of poll_interval ends.
WorkerWakes ==
    /\ pc = "sleep"
    /\ pc' = "poll"
    /\ UNCHANGED <<queue, notes, mirror, job_queue, redis_conn, request_context,
                   reachable, cur, err, touched>>
    /\ UNCHANGED observer

\* A worker that catches the cancellation and goes on polling.
C18_CancelIgnored ==
    /\ pc \in {"poll", "sleep", "hset", "notify"}
    /\ pc' = "poll"
    /\ err' = "CancelledError"
    /\ cur' = NoJob
    /\ touched' = FALSE
    /\ UNCHANGED <<queue, notes, mirror, job_queue, redis_conn, request_context,
                   reachable>>
    /\ UNCHANGED observer

\* main()'s finally, or a test: worker_task.cancel() reaches the worker at
\* the await it is suspended in.
Cancel ==
    /\ pc \in {"poll", "sleep", "hset", "notify"}
    /\ pc' = "cancelled"
    /\ err' = "CancelledError"
    /\ cur' = NoJob
    /\ touched' = FALSE
    /\ UNCHANGED <<queue, notes, mirror, job_queue, redis_conn, request_context,
                   reachable>>
    /\ UNCHANGED observer

WorkerStep ==
    \/ WorkerDequeueFails
    \/ WorkerDequeueEmpty
    \/ WorkerDequeueRaises
    \/ WorkerDequeueJob
    \/ WorkerHset
    \/ WorkerHsetFails
    \/ WorkerNotify
    \/ WorkerWakes

Next ==
    \/ Main
    \/ \E v \in {"None", "conn"} : SetRedisConn(v)
    \/ \E v \in {"unset", "ctx"} : SetRequestContext(v)
    \/ StoreFlips
    \/ \E job \in PipelineJobs : Produce(job)
    \/ \E rec \in ForeignRecords : ForeignPush(rec)
    \/ \E call \in Calls : handle_call_tool(call[1], call[2], TRUE)
    \/ WorkerStep
    \/ Cancel

Spec == Init /\ [][Next]_vars

---------------------------------------------------------------------------
(* The queue alone, driven by a client that records what it passes to      *)
(* enqueue, what dequeue returns, and the outcome of its last call.        *)

enqueue(job) ==
    /\ Len(put) < MaxPut
    /\ queue' = EnqueueList(job)
    /\ put' = Append(put, job)
    /\ ret' = Ret("enqueue", job, Len(EnqueueList(job)), "")
    /\ UNCHANGED <<got, last_call, consumers>>
    /\ UNCHANGED pipeline

dequeue ==
    /\ queue' = DequeueList
    /\ got' = IF DequeueResult.none \/ DequeueResult.exc # ""
              THEN got
              ELSE Append(got, DequeueResult.job)
    /\ ret' = Ret("dequeue", DequeueResult.job, 0, DequeueResult.exc)
    /\ UNCHANGED <<put, last_call, consumers>>
    /\ UNCHANGED pipeline

QueueNext ==
    \/ \E job \in Jobs : enqueue(job)
    \/ dequeue

QueueSpec == Init /\ [][QueueNext]_vars

---------------------------------------------------------------------------
(* The pipeline with a client that records its tool calls, fed through the *)
(* tool handler only, and recovered from the mirror once the worker has    *)
(* stopped.                                                                *)

\* A client calls a tool and sees what the call raises and sends.
ClientCalls(name, arguments, session) ==
    LET r == CallTool(name, arguments, session)
    IN  /\ Len(r.queue) <= MaxQueue
        /\ notes' = r.notes
        /\ queue' = r.queue
        /\ touched' = (touched \/ (/\ pc \in {"hset", "notify"}
                                   /\ r.notes # notes
                                   /\ Get(arguments, "name") = NameOf(cur)))
        /\ last_call' = ToolCall(name, arguments, r.exc, r.sent, 1 - last_call.seq)
        /\ UNCHANGED <<mirror, job_queue, redis_conn, request_context, reachable,
                       pc, cur, err>>
        /\ UNCHANGED <<put, got, ret, consumers>>

\* The recovery of the integration test, run once the worker task is done:
\* notes is cleared, a queue is made, and notes is loaded from the hash.
Recover ==
    /\ pc \in {"cancelled", "crashed"}
    /\ reachable
    /\ job_queue' = "queue"
    /\ notes' = Update(Clear(notes), HGetAll(mirror))
    /\ last_call' = ToolCall("recover", EmptyDict, "", 0, 1 - last_call.seq)
    /\ UNCHANGED <<queue, mirror, redis_conn, request_context, reachable,
                   pc, cur, err, touched>>
    /\ UNCHANGED <<put, got, ret, consumers>>

ClientNext ==
    \/ Main
    \/ \E v \in {"None", "conn"} : SetRedisConn(v)
    \/ \E tc \in Calls, session \in BOOLEAN : ClientCalls(tc[1], tc[2], session)
    \/ WorkerDequeueEmpty
    \/ WorkerDequeueJob
    \/ WorkerHset
    \/ WorkerWakes
    \/ Cancel
    \/ Recover

ClientSpec == Init /\ [][ClientNext]_vars

---------------------------------------------------------------------------
(* main() from start to shutdown: the queue is made and the worker started, *)
(* producers enqueue, and the finally block cancels the worker, awaits it   *)
(* and closes the connection.                                               *)

\* main()'s finally, lines 222-224: `await worker_task` has returned (the
\* CancelledError is suppressed; any other exception of the worker would be
\* raised here, before the close) and redis.close() runs.  pc = "closed":
\* the worker task is done and the connection is closed.
Close ==
    /\ pc = "cancelled"
    /\ pc' = "closed"
    /\ UNCHANGED <<queue, notes, mirror, job_queue, redis_conn, request_context,
                   reachable, cur, err, touched>>
    /\ UNCHANGED observer

MainNext ==
    \/ Main
    \/ \E v \in {"None", "conn"} : SetRedisConn(v)
    \/ \E job \in ValidJobs : Produce(job)
    \/ WorkerDequeueEmpty
    \/ WorkerDequeueJob
    \/ WorkerHset
    \/ WorkerWakes
    \/ Cancel
    \/ Close

MainSpec == Init /\ [][MainNext]_vars

---------------------------------------------------------------------------
(* The queue with all that is done around it: producers that call enqueue, *)
(* the add-note-async tool, a consumer that calls dequeue, and the tool    *)
(* calls that are no enqueue.  The client records every job enqueued, by   *)
(* either way, and every job returned.                                     *)

\* The tool calls that enqueue nothing: add-note, delete-note, the unknown
\* tool and the rejected calls.
OtherCalls ==
    {tc \in Calls : tc[1] # "add-note-async" \/ "content" \notin DOMAIN tc[2]}

\* add-note-async is called and succeeds: the handler has enqueued the job
\* made of the call's name and content (server.py:177).
EnqueuesNote(arguments) ==
    LET r == CallTool("add-note-async", arguments, TRUE)
        job == Job("add-note", [name |-> PyStr(arguments.name),
                                content |-> PyStr(arguments.content)])
    IN  /\ r.exc = ""
        /\ Len(put) < MaxPut
        /\ notes' = r.notes
        /\ queue' = r.queue
        /\ put' = Append(put, job)
        /\ ret' = Ret("enqueue", job, Len(r.queue), "")
        /\ UNCHANGED <<mirror, job_queue, redis_conn, request_context, reachable,
                       pc, cur, err, touched>>
        /\ UNCHANGED <<got, last_call, consumers>>

ConserveNext ==
    \/ Main
    \/ \E job \in ValidJobs : enqueue(job)
    \/ \E arguments \in JobArgs : EnqueuesNote(arguments)
    \/ dequeue
    \/ \E tc \in OtherCalls : handle_call_tool(tc[1], tc[2], TRUE)

ConserveSpec == Init /\ [][ConserveNext]_vars

---------------------------------------------------------------------------
(* Two consumers that call dequeue on one queue concurrently.  The jobs    *)
(* enqueued are pairwise distinct, so that a job returned tells which      *)
(* record it came from.                                                    *)

ConsumerJobs == {AddNote("a", "x"), AddNote("b", "x"), UnknownType, Echo}

\* dequeue, line 32: the store runs lpop and the consumer awaits the reply.
ConsumerLpop(c) ==
    /\ consumers[c].pc = "idle"
    /\ queue' = DequeueList
    /\ consumers' =
          [consumers EXCEPT
             ![c] = Awaiting(IF queue = <<>> THEN <<>> ELSE <<LPopValue(queue)>>,
                             @.out)]
    /\ UNCHANGED <<put, got, ret, last_call>>
    /\ UNCHANGED pipeline

\* dequeue, lines 33-36: the consumer resumes with the reply and returns
\* None or the decoded job (or raises, and is returned nothing).
ConsumerReturns(c) ==
    /\ consumers[c].pc = "lpop"
    /\ consumers' =
          [consumers EXCEPT
             ![c] = IF @.reply = <<>> \/ Loads(@.reply[1]).exc # ""
                    THEN Idle(@.out)
                    ELSE Idle(Append(@.out, Loads(@.reply[1]).job))]
    /\ UNCHANGED <<queue, put, got, ret, last_call>>
    /\ UNCHANGED pipeline

ConsumerNext ==
    \/ \E job \in ConsumerJobs :
          /\ \A i \in 1..Len(put) : put[i] # job
          /\ enqueue(job)
    \/ \E c \in Consumers : ConsumerLpop(c)
    \/ \E c \in Consumers : ConsumerReturns(c)

ConsumerSpec == Init /\ [][ConsumerNext]_vars

---------------------------------------------------------------------------
(* Properties of the queue, under QueueSpec *)

\* json round-trips every value but a tuple, which comes back as a list.
JsonNative(job) == \A k \in DOMAIN job.data : job.data[k][1] # "tuple"

\* C1 as stated: the i-th job that dequeue returns is the i-th job that was
\* passed to enqueue, whatever the jobs.
C1_FifoAsClaimed == \A i \in 1..Len(got) : got[i] = put[i]

\* C1: the i-th job that dequeue returns is the decoding of the encoding of
\* the i-th job passed to enqueue, and is that job itself when its data holds
\* JSON-native values only.
C1_Fifo ==
    \A i \in 1..Len(got) :
        /\ i <= Len(put)
        /\ got[i] = Loads(Dumps(put[i])).job
        /\ JsonNative(put[i]) => got[i] = put[i]

\* Three distinct jobs were enqueued and then dequeued, in that order.
C1_Witness ==
    /\ Len(put) = 3
    /\ Cardinality({put[i] : i \in 1..3}) = 3
    /\ got = put
    /\ queue = <<>>
    /\ ret.op = "dequeue"

\* C2 as stated: a dequeue that follows an enqueue(j) on an empty queue
\* returns a job equal to j, whatever j.
C2_RoundTripAsClaimed ==
    [][(ret.op = "enqueue" /\ ret.len = 1 /\ ret'.op = "dequeue")
         => (ret'.exc = "" /\ ret'.job = ret.job)]_vars

\* C2: a dequeue that follows an enqueue(j) on an empty queue returns a job
\* equal to j in type and data, when the data of j holds JSON-native values
\* only.
C2_RoundTrip ==
    [][(ret.op = "enqueue" /\ ret.len = 1 /\ ret'.op = "dequeue"
            /\ JsonNative(ret.job))
         => (ret'.exc = "" /\ ret'.job = ret.job)]_vars

\* The job of the repository's own test went through an empty queue.
C2_Witness ==
    /\ put = <<Echo>>
    /\ got = <<Echo>>
    /\ queue = <<>>
    /\ ret = Ret("dequeue", Echo, 0, "")

\* C13: a dequeue on an empty queue (of a store that answers) returns None:
\* it raises nothing, returns no job, and leaves the queue empty.
C13_EmptyDequeue ==
    [][(queue = <<>> /\ reachable /\ ret'.op = "dequeue")
         => /\ ret' = Ret("dequeue", NoJob, 0, "")
            /\ got' = got
            /\ queue' = <<>>]_vars

\* A job went through the queue, and the dequeue after it returned None.
C13_Witness ==
    /\ Len(put) = 1
    /\ got = put
    /\ queue = <<>>
    /\ ret = Ret("dequeue", NoJob, 0, "")

---------------------------------------------------------------------------
(* Properties of the pipeline, under Spec *)

\* The step in which the worker's dequeue pops the head of the list (no
\* other action of Spec shortens it).
WorkerTakes == pc = "poll" /\ Len(queue') < Len(queue)

TakenExc == Loads(Head(queue)).exc

TakenJob == Loads(Head(queue)).job

WellFormed(job) ==
    job.type = "add-note" /\ {"name", "content"} \subseteq DOMAIN job.data

Has(d, n, c) == n \in DOMAIN d /\ d[n] = c

\* C3, stated as a safety property.  Nothing restarts the worker, so the
\* well-formed add-note jobs that wait in the queue are delivered only if the
\* worker outlives the job it takes: taking a well-formed add-note job writes
\* its note and does not end the worker while such a job still waits.
C3_DeliveryAsClaimed ==
    [][(WorkerTakes /\ TakenExc = "" /\ WellFormed(TakenJob))
         => /\ Has(notes', NameOf(TakenJob), ContentOf(TakenJob))
            /\ \/ pc' # "crashed"
               \/ \A i \in 1..Len(queue') :
                     ~(Loads(queue'[i]).exc = "" /\ WellFormed(Loads(queue'[i]).job))]_vars

\* C4 as stated: when the worker takes an add-note job that lacks a required
\* key, notes is unchanged and the worker goes on polling.
C4_MalformedAsClaimed ==
    [][(WorkerTakes /\ TakenExc = "" /\ TakenJob.type = "add-note"
            /\ ~WellFormed(TakenJob))
         => (notes' = notes /\ pc' = "poll")]_vars

\* C5: when the worker takes a job whose type is not "add-note", process_job
\* returns (the worker polls again: it has not raised and is not suspended
\* in the notifier) and notes and the mirror are unchanged.
C5_UnknownTypeNoOp ==
    [][(WorkerTakes /\ TakenExc = "" /\ TakenJob.type # "add-note")
         => (pc' = "poll" /\ err' = "" /\ notes' = notes /\ mirror' = mirror)]_vars

\* The worker has executed a job of an unknown type, with notes and a mirror
\* that are not empty and a notifier attached, and polls again.
C5_Witness ==
    /\ pc = "poll"
    /\ cur = UnknownType
    /\ notes # EmptyDict
    /\ mirror # EmptyDict
    /\ redis_conn = "conn"
    /\ request_context = "ctx"

\* C6 as stated: executing a well-formed add-note job with no mirror and no
\* notifier returns without raising, with notes the previous mapping but for
\* the job's name mapped to its content.
C6_AddNoteAsClaimed ==
    [][(WorkerTakes /\ TakenExc = "" /\ WellFormed(TakenJob)
            /\ redis_conn # "conn" /\ request_context # "ctx")
         => /\ pc' = "poll"
            /\ err' = ""
            /\ notes' = Put(notes, NameOf(TakenJob), ContentOf(TakenJob))]_vars

\* C7 as stated: the execution of a well-formed add-note job calls the
\* notifier once, after the mutation, when one is attached, and returns
\* without error and without calling it when none is.  The notifier is called
\* in the step that leaves "notify".
C7_NotifierAsClaimed ==
    [][/\ (WorkerTakes /\ TakenExc = "" /\ WellFormed(TakenJob))
          => /\ pc' \in {"poll", "hset", "notify"}
             /\ pc' = "notify" => request_context = "ctx"
             /\ pc' = "poll" => request_context # "ctx"
             /\ Has(notes', NameOf(TakenJob), ContentOf(TakenJob))
       /\ (pc = "hset" /\ reachable /\ pc' \in {"poll", "notify", "crashed"})
          => pc' = (IF request_context = "ctx" THEN "notify" ELSE "poll")
       /\ (pc = "notify" /\ pc' # "notify")
          => pc' \in {"poll", "cancelled"}]_vars

\* C8 as stated: when the head record does not decode, the worker's dequeue
\* consumes it and the worker goes on polling.
C8_UndecodableAsClaimed ==
    [][(WorkerTakes /\ TakenExc # "")
         => (queue' = Tail(queue) /\ pc' = "poll")]_vars

\* C9 as stated: while the store is unreachable the running worker does not
\* exit.
C9_TransportAsClaimed ==
    [][(Running /\ ~reachable) => pc' # "crashed"]_vars

\* C10: the step in which the mirror write of an add-note job fails leaves
\* notes as it is, and the job's name still maps to its content unless a tool
\* call rewrote or deleted that note while the write was pending.
C10_MirrorFailureKeepsNote ==
    [][(pc = "hset" /\ pc' = "crashed")
         => /\ notes' = notes
            /\ ~touched => Has(notes', NameOf(cur), ContentOf(cur))]_vars

\* The mirror write of a job failed: the worker is dead, the note is there
\* and the mirror does not have it.
C10_Witness ==
    /\ pc = "crashed"
    /\ err = "ConnectionError in hset"
    /\ notes = [a |-> "x"]
    /\ mirror = EmptyDict

\* C11 as stated: a cancellation that reaches the worker while the mirror
\* write of its job is pending, with the store reachable, stops the worker
\* only once the mirror holds the job's content.
C11_CancelAsClaimed ==
    [][(pc = "hset" /\ reachable /\ pc' = "cancelled")
         => Has(mirror', NameOf(cur), ContentOf(cur))]_vars

\* C19 as stated, for well-formed jobs and a store that answers: the worker
\* sleeps only after a dequeue on an empty queue, starts an execution only
\* with the job it has just taken, polls again when the execution is over,
\* and is in no other state, so that it drains a backlog: taking a job leaves
\* it executing or polling, and so does the mirror write.
C19_StateMachineAsClaimed ==
    [][/\ (pc' = "sleep" /\ pc # "sleep")
          => (pc = "poll" /\ queue = <<>> /\ queue' = <<>>)
       /\ (pc' \in {"hset", "notify"} /\ pc \notin {"hset", "notify"})
          => (WorkerTakes /\ cur' = TakenJob)
       /\ (WorkerTakes /\ TakenExc = "" /\ WellFormed(TakenJob))
          => pc' \in {"poll", "hset", "notify"}
       /\ (pc \in {"hset", "notify"} /\ reachable /\ pc' # pc)
          => pc' \in {"poll", "notify", "cancelled"}]_vars

\* The worker's steps: all that change its position, its job or its error.
WorkerActs == pc' # pc \/ cur' # cur \/ err' # err \/ mirror' # mirror

\* C20: the worker removes the record of every job it takes, whether the
\* execution returns, suspends or raises, and no step of the worker, nor its
\* cancellation, puts a record on the queue.
C20_PopAndForget ==
    [][/\ WorkerActs => (queue' = queue \/ (queue # <<>> /\ queue' = Tail(queue)))
       /\ (pc = "poll" /\ pc' \in {"hset", "notify"})
          => (queue # <<>> /\ queue' = Tail(queue))
       /\ (pc = "poll" /\ pc' = "poll" /\ WorkerActs)
          => (queue # <<>> /\ queue' = Tail(queue))
       /\ (pc = "poll" /\ pc' = "crashed" /\ err' # "ConnectionError in lpop")
          => (queue # <<>> /\ queue' = Tail(queue))]_vars

\* The execution of a job raised KeyError and ended the worker: the job is
\* not in the queue, and has written nothing.
C20_Witness ==
    /\ pc = "crashed"
    /\ err = "KeyError"
    /\ queue = <<>>
    /\ notes = EmptyDict
    /\ mirror = EmptyDict

---------------------------------------------------------------------------
(* Properties of concurrent consumers, under ConsumerSpec *)

\* The places of the jobs returned: the consumer and the rank in what it got.
Deliveries ==
    UNION {{<<c, i>> : i \in 1..Len(consumers[c].out)} : c \in Consumers}

Delivered(d) == consumers[d[1]].out[d[2]]

\* C12: with two consumers calling dequeue concurrently, every job returned
\* is one that was enqueued, and no enqueued job is returned twice, to one
\* consumer or to both.
C12_NoDoubleDelivery ==
    /\ \A d \in Deliveries : \E i \in 1..Len(put) : put[i] = Delivered(d)
    /\ \A d, e \in Deliveries : d # e => Delivered(d) # Delivered(e)

\* Three jobs were enqueued and all were returned, some to each consumer.
C12_Witness ==
    /\ Len(put) = 3
    /\ queue = <<>>
    /\ \A c \in Consumers : consumers[c].pc = "idle" /\ consumers[c].out # <<>>
    /\ Cardinality(Deliveries) = 3

---------------------------------------------------------------------------
(* Properties of the tool handler and of the recovery, under ClientSpec *)

\* The step is a call of the tool op (or the recovery) by the client.
ClientCalled(op) == last_call'.seq # last_call.seq /\ last_call'.op = op

\* The record that the JSON text of an add-note job denotes.
AddNoteRecord(n, c) ==
    [syntax |-> "object", keys |-> {"type", "data"}, type |-> "add-note",
     data |-> [name |-> <<"string", n>>, content |-> <<"string", c>>]]

\* C14: an add-note-async call that succeeds had a non-empty name and a
\* non-empty content; it appends the one add-note job of that name and
\* content to the tail of the queue, leaves notes and the mirror as they
\* are and sends no notification.
C14_FireAndForget ==
    [][(ClientCalled("add-note-async") /\ last_call'.exc = "")
         => /\ last_call'.arguments.name # ""
            /\ last_call'.arguments.content # ""
            /\ queue' = Append(queue, AddNoteRecord(last_call'.arguments.name,
                                                    last_call'.arguments.content))
            /\ notes' = notes
            /\ mirror' = mirror
            /\ last_call'.sent = 0]_vars

\* add-note-async of (a, x) succeeded behind a job that waited; the note a
\* is not in notes, which hold another note.
C14_Witness ==
    /\ last_call.op = "add-note-async"
    /\ last_call.exc = ""
    /\ last_call.arguments = [name |-> "a", content |-> "x"]
    /\ queue = <<AddNoteRecord("b", "x"), AddNoteRecord("a", "x")>>
    /\ notes = [b |-> "x"]

\* C15: a tool call that raises ValueError leaves notes, the queue and the
\* mirror as they were and sends no notification.
C15_RejectedChangesNothing ==
    [][(last_call'.seq # last_call.seq /\ last_call'.exc = "ValueError")
         => /\ notes' = notes
            /\ queue' = queue
            /\ mirror' = mirror
            /\ last_call'.sent = 0]_vars

\* delete-note of a name that is not in notes was rejected, with a note
\* in notes and a job in the queue.
C15_Witness ==
    /\ last_call.op = "delete-note"
    /\ last_call.exc = "ValueError"
    /\ last_call.arguments = [name |-> "a"]
    /\ notes = [b |-> "x"]
    /\ queue # <<>>

\* C16: the recovery leaves notes equal to the mirror's hash, and the hash
\* as it was.
C16_Recovery ==
    [][ClientCalled("recover") => (notes' = mirror /\ mirror' = mirror)]_vars

\* Recovered: notes is the hash of two mirrored notes.
C16_Witness ==
    /\ last_call.op = "recover"
    /\ mirror = [a |-> "x", b |-> "x"]
    /\ notes = mirror

\* The last tool call was an add-note that succeeded, and the last job the
\* worker took, and has finished, is an add-note job for the same name.
BothCompleted ==
    /\ last_call.op = "add-note"
    /\ last_call.exc = ""
    /\ pc \in {"poll", "sleep"}
    /\ WellFormed(cur)
    /\ NameOf(cur) = last_call.arguments.name

\* C17: a synchronous add-note assigns its content to its name, and so does
\* the worker when it takes an add-note job; no other step but a delete-note
\* or the recovery changes what a name maps to.  Hence once both have
\* completed, the name maps to the content of one of the two: of the one
\* that assigned last.
C17_LastWriteWins ==
    [][/\ (ClientCalled("add-note") /\ last_call'.exc = "")
          => Has(notes', last_call'.arguments.name, last_call'.arguments.content)
       /\ (WorkerTakes /\ TakenExc = "" /\ WellFormed(TakenJob))
          => Has(notes', NameOf(TakenJob), ContentOf(TakenJob))
       /\ \A n \in DOMAIN notes' :
             (n \notin DOMAIN notes \/ notes'[n] # notes[n])
               => \/ ClientCalled("add-note") /\ last_call'.arguments.name = n
                  \/ WorkerTakes /\ TakenExc = "" /\ WellFormed(TakenJob)
                       /\ NameOf(TakenJob) = n
                  \/ ClientCalled("recover")
       /\ BothCompleted
          => \/ Has(notes, NameOf(cur), ContentOf(cur))
             \/ Has(notes, NameOf(cur), last_call.arguments.content)]_vars

\* The job assigned last: add-note wrote (a, y), and the job (a, x), taken
\* after it, has completed.
C17_Witness ==
    /\ BothCompleted
    /\ last_call.arguments = [name |-> "a", content |-> "y"]
    /\ cur = AddNote("a", "x")
    /\ notes = [a |-> "x"]

\* The tool call assigned last: the job (a, x) has completed, and add-note
\* wrote (a, y) after the job's assignment.
C17_SyncLast ==
    /\ BothCompleted
    /\ last_call.arguments = [name |-> "a", content |-> "y"]
    /\ cur = AddNote("a", "x")
    /\ notes = [a |-> "y"]

\* The record decodes to an add-note job with a name and a content that are
\* not empty.
ProducerMade(rec) ==
    /\ Loads(rec).exc = ""
    /\ WellFormed(Loads(rec).job)
    /\ NameOf(Loads(rec).job) # ""
    /\ ContentOf(Loads(rec).job) # ""

\* C23: when the queue is written through add-note-async only, every record
\* in it is an add-note job with a non-empty name and a non-empty content,
\* and so is every job the worker holds; the worker has met no job of an
\* unknown type and none that lacks a key, and no record it could not decode.
C23_WellFormedJobs ==
    /\ \A i \in 1..Len(queue) : ProducerMade(queue[i])
    /\ cur # NoJob => ProducerMade(Dumps(cur))
    /\ err \notin {"KeyError", "JSONDecodeError", "TypeError"}

\* The worker has executed a job that add-note-async enqueued, and two more
\* wait in the queue.
C23_Witness ==
    /\ pc = "poll"
    /\ cur # NoJob
    /\ Has(mirror, NameOf(cur), ContentOf(cur))
    /\ Len(queue) = 2
    /\ last_call.op = "add-note-async"
    /\ last_call.exc = ""

---------------------------------------------------------------------------
(* Properties of the shutdown, under MainSpec *)

\* C18: a worker that sleeps or is about to poll can be cancelled; the
\* cancellation stops it there, with the queue as it is; once stopped the
\* worker stays stopped and takes no job; and main() closes the connection
\* only once the worker has stopped as cancelled.
C18_CancelStops ==
    [][/\ pc \in {"poll", "sleep"} => ENABLED Cancel
       /\ (pc \in {"poll", "sleep"} /\ err' = "CancelledError")
          => (pc' = "cancelled" /\ queue' = queue /\ notes' = notes)
       /\ pc \in {"cancelled", "closed"}
          => /\ pc' \in {"cancelled", "closed"}
             /\ Len(queue') >= Len(queue)
             /\ notes' = notes
             /\ mirror' = mirror
       /\ (pc' = "closed" /\ pc # "closed") => pc = "cancelled"]_vars

\* The worker was cancelled before it took any job and the connection is
\* closed; two jobs wait in the queue.
C18_Witness ==
    /\ pc = "closed"
    /\ err = "CancelledError"
    /\ Len(queue) = 2
    /\ notes = EmptyDict

\* C22 as stated, where notes is written by the worker only and no store
\* operation fails: with a mirror configured, the hash equals notes in every
\* state in which the worker is not in the middle of a job.
C22_MirrorAsClaimed ==
    (redis_conn = "conn" /\ pc \notin {"hset", "notify"}) => mirror = notes

---------------------------------------------------------------------------
(* Properties of the queue among the other operations, under ConserveSpec *)

\* The records of the jobs p enqueued that are left once the jobs g were
\* returned.
Remaining(p, g) == [i \in 1..(Len(p) - Len(g)) |-> Dumps(p[Len(g) + i])]

\* C21: after every step the queue holds the records of the jobs enqueued,
\* in that order, less those of the jobs returned, which are the first ones;
\* an enqueue appends its record at the tail and returns the new length, a
\* dequeue that returns a job removes the head, and a step that is neither
\* leaves the queue as it is.
C21_Conservation ==
    [][/\ Len(got') <= Len(put')
       /\ queue' = Remaining(put', got')
       /\ Len(put') > Len(put)
          => /\ queue' = Append(queue, Dumps(put'[Len(put')]))
             /\ ret'.len = Len(queue')
       /\ Len(got') > Len(got)
          => /\ queue # <<>>
             /\ queue' = Tail(queue)
             /\ got'[Len(got')] = Loads(Head(queue)).job
       /\ (put' = put /\ got' = got) => queue' = queue]_vars

\* Three jobs were enqueued and the first was returned; the two others
\* wait, in the order of their enqueue, and notes were written meanwhile.
C21_Witness ==
    /\ Len(put) = 3
    /\ Len(got) = 1
    /\ put[2] # put[3]
    /\ queue = <<Dumps(put[2]), Dumps(put[3])>>
    /\ notes # EmptyDict

====
